---- MODULE Spec2Model ----
(***************************************************************************)
(* A model of med2image.py: the construction of a med2image /              *)
(* med2image_nii object (selector parsing, output type resolution, NIfTI   *)
(* loading), the conversion loop of med2image_nii.run(), and the dispatch  *)
(* of the command line program.                                            *)
(*                                                                         *)
(* Python strings are sequences of one-character strings, so that          *)
(* os.path.splitext, str.lower, int() and the '%03d' / '%s' formats are    *)
(* computed character by character.                                        *)
(***************************************************************************)
EXTENDS FiniteSets, Integers, Sequences, TLC

(***************************************************************************)
(* Bounds of the explored inputs.                                          *)
(***************************************************************************)
\* largest slice count (shape[2]) of a loaded volume
MaxZ == 3
\* largest frame count (shape[3]) of a loaded 4D volume
MaxT == 2
\* explicit selector indices range over -MaxSel .. MaxSel
MaxSel == 4
\* how many times a caller calls run() on one object
MaxRuns == 2

(***************************************************************************)
(* Python values: a str or an int.                                         *)
(***************************************************************************)
Str(s) == [t |-> "str", v |-> s]
PyInt(n) == [t |-> "int", v |-> n]

(***************************************************************************)
(* String literals of the program and of the explored inputs.              *)
(***************************************************************************)
S_empty == << >>
S_m == <<"m">>
S_M == <<"M">>
S_none == <<"n", "o", "n", "e">>
S_png == <<"p", "n", "g">>
S_dotpng == <<".", "p", "n", "g">>
S_dotnii == <<".", "n", "i", "i">>
S_dotgz == <<".", "g", "z">>
S_curdir == <<".", "/">>
S_vol == <<"v", "o", "l">>
S_out == <<"o", "u", "t">>
S_outjpg == <<"o", "u", "t", ".", "j", "p", "g">>
S_a_nii == <<"a", ".", "n", "i", "i">>
S_a_nii_gz == <<"a", ".", "n", "i", "i", ".", "g", "z">>
S_a_dcm == <<"a", ".", "d", "c", "m">>

(***************************************************************************)
(* str.lower(), on the letters that occur in the explored inputs.          *)
(***************************************************************************)
LowerChar(c) == IF c = "M" THEN "m" ELSE c
Lower(s) == [k \in DOMAIN s |-> LowerChar(s[k])]

(***************************************************************************)
(* int(str) for an optionally signed decimal numeral, and its inverse      *)
(* str(int), used to write the selector arguments.                         *)
(***************************************************************************)
DigitChars == <<"0", "1", "2", "3", "4", "5", "6", "7", "8", "9">>
DigitVal(c) == (CHOOSE k \in 1..10 : DigitChars[k] = c) - 1

RECURSIVE ParseNat(_)
ParseNat(s) ==
  IF Len(s) = 0 THEN 0
  ELSE 10 * ParseNat(SubSeq(s, 1, Len(s) - 1)) + DigitVal(s[Len(s)])

ParseInt(s) ==
  IF Len(s) > 0 /\ s[1] = "-" THEN 0 - ParseNat(Tail(s)) ELSE ParseNat(s)

RECURSIVE NatToStr(_)
NatToStr(n) ==
  IF n < 10 THEN <<DigitChars[n + 1]>>
  ELSE NatToStr(n \div 10) \o <<DigitChars[(n % 10) + 1]>>

IntToStr(n) == IF n < 0 THEN <<"-">> \o NatToStr(0 - n) ELSE NatToStr(n)

(***************************************************************************)
(* The '%03d' conversion: the sign, then the digits zero-padded so that    *)
(* the whole field is at least three characters wide.                      *)
(***************************************************************************)
RECURSIVE ZeroPad(_, _)
ZeroPad(s, width) == IF Len(s) >= width THEN s ELSE ZeroPad(<<"0">> \o s, width)

Fmt03d(n) ==
  IF n < 0 THEN <<"-">> \o ZeroPad(NatToStr(0 - n), 2)
  ELSE ZeroPad(NatToStr(n), 3)

(***************************************************************************)
(* os.path.splitext: split at the last dot of the last path component,     *)
(* unless that component has only dots before it.                          *)
(***************************************************************************)
LastIndexOf(s, c) ==
  IF \E k \in DOMAIN s : s[k] = c
  THEN CHOOSE k \in DOMAIN s : s[k] = c /\ \A j \in DOMAIN s : s[j] = c => j <= k
  ELSE 0

splitext(p) ==
  LET sepIndex == LastIndexOf(p, "/")
      dotIndex == LastIndexOf(p, ".")
  IN IF dotIndex > sepIndex
        /\ \E k \in (sepIndex + 1)..(dotIndex - 1) : p[k] # "."
     THEN <<SubSeq(p, 1, dotIndex - 1), SubSeq(p, dotIndex, Len(p))>>
     ELSE <<p, S_empty>>

(***************************************************************************)
(* numpy arrays, by shape.  `at' lists the indices at which a view was     *)
(* taken from the loaded array: none for the loaded array itself, the      *)
(* frame for V[:,:,:,f], then the slice for V3[:,:,i].                      *)
(***************************************************************************)
NoArray == [ndim |-> 0, shape |-> << >>, at |-> << >>]
Array3D(z) == [ndim |-> 3, shape |-> <<4, 4, z>>, at |-> << >>]
Array4D(z, t) == [ndim |-> 4, shape |-> <<4, 4, z, t>>, at |-> << >>]

\* numpy's index normalisation along an axis of length n: negative indices
\* count from the end; -1 stands for IndexError
NormIndex(k, n) ==
  IF 0 <= k /\ k < n THEN k
  ELSE IF 0 - n <= k /\ k < 0 THEN k + n
  ELSE -1

\* V[..., k]: index the last axis
LastAxisView(V, k) ==
  [ndim  |-> V.ndim - 1,
   shape |-> SubSeq(V.shape, 1, V.ndim - 1),
   at    |-> V.at \o <<NormIndex(k, V.shape[V.ndim])>>]

\* numpy.rot90 of a 2D array: shape (R, C) becomes (C, R)
rot90(M) == [M EXCEPT !.shape = <<M.shape[2], M.shape[1]>>]

(***************************************************************************)
(* med2image.__init__                                                      *)
(***************************************************************************)
\* the attribute block before the kwargs loop
Defaults ==
  [ cls                   |-> "med2image",
    str_inputFile         |-> S_empty,
    str_outputFileStem    |-> S_empty,
    str_outputFileType    |-> S_empty,
    str_outputDir         |-> S_empty,
    sliceToConvert        |-> PyInt(-1),
    frameToConvert        |-> PyInt(-1),
    b_4D                  |-> FALSE,
    b_3D                  |-> FALSE,
    Vnp_4DVol             |-> NoArray,
    Vnp_3DVol             |-> NoArray,
    Mnp_2Dslice           |-> NoArray,
    b_showSlices          |-> FALSE,
    b_convertMiddleSlice  |-> FALSE,
    b_convertMiddleFrame  |-> FALSE ]

Get(kwargs, key, default) == IF key \in DOMAIN kwargs THEN kwargs[key] ELSE default

\* the kwargs loop
ApplyKwargs(o, kwargs) ==
  [o EXCEPT
    !.str_inputFile      = Get(kwargs, "inputFile", @),
    !.str_outputDir      = Get(kwargs, "outputDir", @),
    !.str_outputFileStem = Get(kwargs, "outputFileStem", @),
    !.str_outputFileType = Get(kwargs, "outputFileType", @),
    !.sliceToConvert     = Get(kwargs, "sliceToConvert", @),
    !.frameToConvert     = Get(kwargs, "frameToConvert", @),
    !.b_showSlices       = Get(kwargs, "showSlices", @)]

\* 'm' (in either case) selects the middle; anything else goes through int().
\* The value must be a str: an int has no lower().
HasLower(val) == val.t = "str"
IsMiddle(val) == Lower(val.v) = S_m
ToConvert(val) == IF IsMiddle(val) THEN val ELSE PyInt(ParseInt(val.v))

\* the resolved self._str_outputFileType
OutputFileType(str_outputFileStem, str_outputFileType) ==
  LET ext0 == splitext(str_outputFileStem)[2]
      str_fileExtension ==
        IF Len(str_outputFileType) > 0 THEN <<".">> \o str_outputFileType ELSE ext0
      type1 ==
        IF Len(str_fileExtension) > 0 /\ Len(str_outputFileType) = 0
        THEN str_fileExtension ELSE str_outputFileType
  IN IF Len(type1) = 0 /\ Len(str_fileExtension) = 0 THEN S_dotpng ELSE type1

\* the outcome of the constructor: the object, or the exception it raises
Raise(e) == [exc |-> e, obj |-> Defaults]
Return(o) == [exc |-> "", obj |-> o]

med2image_init(kwargs) ==
  LET o1 == ApplyKwargs(Defaults, kwargs) IN
  IF ~HasLower(o1.frameToConvert) THEN Raise("AttributeError")
  ELSE IF ~HasLower(o1.sliceToConvert) THEN Raise("AttributeError")
  ELSE Return([o1 EXCEPT
         !.b_convertMiddleFrame = IsMiddle(o1.frameToConvert),
         !.frameToConvert       = ToConvert(o1.frameToConvert),
         !.b_convertMiddleSlice = IsMiddle(o1.sliceToConvert),
         !.sliceToConvert       = ToConvert(o1.sliceToConvert),
         !.str_outputFileType   =
             OutputFileType(o1.str_outputFileStem, o1.str_outputFileType)])

(***************************************************************************)
(* med2image_nii.__init__: the base constructor, then nib.load on the      *)
(* input file.  data is the decoded array, or NoArray when the decoder     *)
(* raises.                                                                 *)
(***************************************************************************)
med2image_nii_init(kwargs, data) ==
  LET base == med2image_init(kwargs) IN
  IF base.exc # "" THEN base
  ELSE IF data.ndim = 0 THEN Raise("ImageFileError")
  ELSE Return([base.obj EXCEPT
         !.cls       = "med2image_nii",
         !.Vnp_4DVol = IF data.ndim = 4 THEN data ELSE @,
         !.b_4D      = IF data.ndim = 4 THEN TRUE ELSE @,
         !.Vnp_3DVol = IF data.ndim = 3 THEN data ELSE @,
         !.b_3D      = IF data.ndim = 3 THEN TRUE ELSE @])

(***************************************************************************)
(* med2image_nii.run(), in three pieces: the prologue up to the frame      *)
(* loop, the head of one frame iteration, and one slice iteration.         *)
(***************************************************************************)
\* a variant that rounds the middle of an even count down
Middle_lower(n) == (n - 1) \div 2

\* int(n/2) on a non-negative count
Middle(n) == n \div 2

\* a variant whose "all" range stops one short of the count
Bounds_short(sel, n, prev) ==
  IF sel = -1 THEN <<prev[1], n - 1>> ELSE <<sel, sel + 1>>

\* range(start, end) as the pair of its bounds, for selector value sel
\* (-1 selects everything) on an axis of length n, from previous bounds
Bounds(sel, n, prev) == IF sel = -1 THEN <<prev[1], n>> ELSE <<sel, sel + 1>>

\* a variant that clamps an explicit frame range to the frame count
RunPrologue_clamp(o) ==
  LET frames == IF o.b_4D THEN o.Vnp_4DVol.shape[4] ELSE 1
      o1     == IF o.b_convertMiddleFrame
                THEN [o EXCEPT !.frameToConvert = PyInt(Middle(frames))]
                ELSE o
      fr0    == Bounds(o1.frameToConvert.v, frames, <<0, 0>>)
      fr     == <<fr0[1], IF fr0[2] > frames THEN frames ELSE fr0[2]>>
  IN [obj |-> o1,
      loc |-> [frames |-> frames, frameStart |-> fr[1], frameEnd |-> fr[2],
               sliceStart |-> 0, sliceEnd |-> 0, f |-> fr[1], i |-> 0]]

\* run(), from the locals' initialisation to the frame range
RunPrologue(o) ==
  LET frames == IF o.b_4D THEN o.Vnp_4DVol.shape[4] ELSE 1
      o1     == IF o.b_convertMiddleFrame
                THEN [o EXCEPT !.frameToConvert = PyInt(Middle(frames))]
                ELSE o
      fr     == Bounds(o1.frameToConvert.v, frames, <<0, 0>>)
  IN [obj |-> o1,
      loc |-> [frames |-> frames, frameStart |-> fr[1], frameEnd |-> fr[2],
               sliceStart |-> 0, sliceEnd |-> 0, f |-> fr[1], i |-> 0]]

\* a variant that, once a frame is extracted, marks the object as 3D
FrameHead_retag(o, l) ==
  LET view == LastAxisView(o.Vnp_4DVol, l.f)
      bad  == o.b_4D /\ view.at[Len(view.at)] = -1
      o1   == IF o.b_4D
              THEN [o EXCEPT !.Vnp_3DVol = view, !.b_3D = TRUE, !.b_4D = FALSE]
              ELSE o
      slices == o1.Vnp_3DVol.shape[3]
      o2   == IF o1.b_convertMiddleSlice
              THEN [o1 EXCEPT !.sliceToConvert = PyInt(Middle(slices))]
              ELSE o1
      sl   == Bounds(o2.sliceToConvert.v, slices, <<l.sliceStart, l.sliceEnd>>)
  IN IF bad THEN [exc |-> "IndexError", obj |-> o, loc |-> l]
     ELSE [exc |-> "", obj |-> o2,
           loc |-> [l EXCEPT !.sliceStart = sl[1], !.sliceEnd = sl[2],
                             !.i = sl[1]]]

\* the body of the frame loop up to mkdir
FrameHead(o, l) ==
  LET view == LastAxisView(o.Vnp_4DVol, l.f)
      bad  == o.b_4D /\ view.at[Len(view.at)] = -1
      o1   == IF o.b_4D THEN [o EXCEPT !.Vnp_3DVol = view] ELSE o
      slices == o1.Vnp_3DVol.shape[3]
      o2   == IF o1.b_convertMiddleSlice
              THEN [o1 EXCEPT !.sliceToConvert = PyInt(Middle(slices))]
              ELSE o1
      sl   == Bounds(o2.sliceToConvert.v, slices, <<l.sliceStart, l.sliceEnd>>)
  IN IF bad THEN [exc |-> "IndexError", obj |-> o, loc |-> l]
     ELSE [exc |-> "", obj |-> o2,
           loc |-> [l EXCEPT !.sliceStart = sl[1], !.sliceEnd = sl[2],
                             !.i = sl[1]]]

\* the path handed to imsave
OutputFile(b_4D, str_outputDir, str_outputFileStem, f, i, str_outputFileType) ==
  IF b_4D
  THEN str_outputDir \o <<"/">> \o str_outputFileStem
         \o <<"-", "f", "r", "a", "m", "e">> \o Fmt03d(f)
         \o <<"-", "s", "l", "i", "c", "e">> \o Fmt03d(i)
         \o <<".">> \o str_outputFileType
  ELSE str_outputDir \o <<"/">> \o str_outputFileStem
         \o <<"-", "s", "l", "i", "c", "e">> \o Fmt03d(i)
         \o <<".">> \o str_outputFileType

\* a variant that swallows the encoder's failure and goes on
SliceBody_swallow(o, l, encoderOk) ==
  LET imslice == LastAxisView(o.Vnp_3DVol, l.i)
      file    == OutputFile(o.b_4D, o.str_outputDir, o.str_outputFileStem,
                            l.f, l.i, o.str_outputFileType)
  IN IF imslice.at[Len(imslice.at)] = -1
     THEN [exc |-> "IndexError", obj |-> o, called |-> FALSE, saved |-> FALSE,
           file |-> file]
     ELSE [exc    |-> "",
           obj    |-> [o EXCEPT !.Mnp_2Dslice = rot90(imslice)],
           called |-> TRUE,
           saved  |-> encoderOk,
           file   |-> file]

\* one slice iteration; encoderOk is whether pylab.imsave
\* succeeds in writing the file
SliceBody(o, l, encoderOk) ==
  LET imslice == LastAxisView(o.Vnp_3DVol, l.i)
      file    == OutputFile(o.b_4D, o.str_outputDir, o.str_outputFileStem,
                            l.f, l.i, o.str_outputFileType)
  IN IF imslice.at[Len(imslice.at)] = -1
     THEN [exc |-> "IndexError", obj |-> o, called |-> FALSE, saved |-> FALSE,
           file |-> file]
     ELSE [exc    |-> IF encoderOk THEN "" ELSE "IOError",
           obj    |-> [o EXCEPT !.Mnp_2Dslice = rot90(imslice)],
           called |-> TRUE,
           saved  |-> encoderOk,
           file   |-> file]

\* misc.mkdir: create the directory unless it exists
mkdir(dirs, d) == dirs \cup {d}


(***************************************************************************)
(* The command line program: argparse defaults and the dispatch on the     *)
(* input file's extension.                                                 *)
(***************************************************************************)
\* parser.parse_args(): argv maps the options given to their values
parse_args(argv) ==
  [inputFile      |-> argv["i"],
   outputFileStem |-> argv["o"],
   outputDir      |-> Get(argv, "d", S_curdir),
   outputFileType |-> Get(argv, "t", S_none),
   sliceToConvert |-> Get(argv, "s", <<"-", "1">>),
   frameToConvert |-> Get(argv, "f", <<"-", "1">>),
   showSlices     |-> "False"]

b_niftiExt(inputFile) ==
  LET str_fileExtension == splitext(inputFile)[2]
  IN str_fileExtension = S_dotnii \/ str_fileExtension = S_dotgz

\* the keyword arguments of the two constructor calls
NiiKwargs(args) ==
  [inputFile      |-> args.inputFile,
   outputDir      |-> args.outputDir,
   outputFileStem |-> args.outputFileStem,
   outputFileType |-> args.outputFileType,
   sliceToConvert |-> Str(args.sliceToConvert),
   frameToConvert |-> Str(args.frameToConvert),
   showSlices     |-> args.showSlices]

GenericKwargs(args) ==
  [inputFile      |-> args.inputFile,
   outputFileStem |-> args.outputFileStem,
   outputFileType |-> args.outputFileType,
   sliceToConvert |-> Str(args.sliceToConvert)]

\* C_convert = ...
Dispatch(args, data) ==
  IF b_niftiExt(args.inputFile)
  THEN med2image_nii_init(NiiKwargs(args), data)
  ELSE med2image_init(GenericKwargs(args))

(***************************************************************************)
(* The explored inputs.                                                    *)
(***************************************************************************)
Stems == {S_vol, S_out, S_outjpg}
SelectorArgs == {S_m, S_M} \cup {IntToStr(n) : n \in (0 - MaxSel)..MaxSel}
Arrays == {Array3D(z) : z \in 1..MaxZ}
            \cup {Array4D(z, t) : z \in 1..MaxZ, t \in 1..MaxT}
NiftiFiles == {S_a_nii, S_a_nii_gz}
OtherFiles == {S_a_dcm}

\* command lines: -i and -o always, -s and -f always (their default '-1'
\* is among the values), -t given or not, -d never
ArgvSet ==
  { [i |-> inp, o |-> stem, s |-> s, f |-> f] :
      inp \in NiftiFiles \cup OtherFiles, stem \in Stems,
      s \in SelectorArgs, f \in SelectorArgs }
  \cup
  { [i |-> inp, o |-> stem, s |-> s, f |-> f, t |-> S_png] :
      inp \in NiftiFiles \cup OtherFiles, stem \in Stems,
      s \in SelectorArgs, f \in SelectorArgs }

\* direct constructor calls: every keyword but possibly outputFileType
KwargsSet ==
  { [inputFile |-> S_a_nii, outputDir |-> S_curdir, outputFileStem |-> stem,
     sliceToConvert |-> Str(s), frameToConvert |-> Str(f)] :
      stem \in Stems, s \in SelectorArgs, f \in SelectorArgs }
  \cup
  { [inputFile |-> S_a_nii, outputDir |-> S_curdir, outputFileStem |-> stem,
     sliceToConvert |-> Str(s), frameToConvert |-> Str(f),
     outputFileType |-> S_png] :
      stem \in Stems, s \in SelectorArgs, f \in SelectorArgs }

\* what nib.load finds in the input file: a 3D or 4D array, or nothing it
\* can decode; a file that is not named as NIfTI holds no NIfTI data
Contents(inputFile) ==
  IF b_niftiExt(inputFile) THEN Arrays \cup {NoArray} ELSE {NoArray}

(***************************************************************************)
(* State.                                                                  *)
(***************************************************************************)
VARIABLES
  mode,      \* "cli": the program is run; "api": the class is used by a caller
  input,     \* argv ("cli") or the constructor's kwargs ("api")
  cls,       \* the class the caller constructs ("api")
  data,      \* what the decoder finds in the input file
  self,      \* the object's attributes
  loc,       \* the local variables of run()
  pc,        \* "start", "constructed", "frames", "slices", "returned",
             \* "raised", "noobject", "exited"
  exc,       \* the exception that was raised last, "" if none
  exitCode,  \* the exit status of the program, -1 while it has not exited
  dirs,      \* the directories created
  disk,      \* the image files on disk
  jobs,      \* the imsave calls of the current run() call, in order
  history    \* the outcome of each finished run() call, in order

vars == <<mode, input, cls, data, self, loc, pc, exc, exitCode, dirs, disk,
          jobs, history>>

NoLoc == [frames |-> 1, frameStart |-> 0, frameEnd |-> 0,
          sliceStart |-> 0, sliceEnd |-> 0, f |-> 0, i |-> 0]

Init ==
  /\ \/ /\ mode = "cli"
        /\ input \in ArgvSet
        /\ cls = "main"
        /\ data \in Contents(input["i"])
     \/ /\ mode = "api"
        /\ input \in KwargsSet
        /\ cls \in {"med2image", "med2image_nii"}
        /\ data \in Contents(input["inputFile"])
  /\ self = Defaults
  /\ loc = NoLoc
  /\ pc = "start"
  /\ exc = ""
  /\ exitCode = -1
  /\ dirs = {}
  /\ disk = {}
  /\ jobs = << >>
  /\ history = << >>

(***************************************************************************)
(* An exception ends the command line program with status 1 (nothing in    *)
(* the program catches it); a caller of the class gets the exception and   *)
(* may go on using the object, if there is one.                            *)
(***************************************************************************)
Raised(e, at) ==
  /\ exc' = e
  /\ IF mode = "cli"
     THEN pc' = "exited" /\ exitCode' = 1
     ELSE pc' = at /\ exitCode' = exitCode

\* "__main__": parse the arguments and construct the converter
Main ==
  /\ pc = "start" /\ mode = "cli"
  /\ LET r == Dispatch(parse_args(input), data) IN
       IF r.exc # ""
       THEN Raised(r.exc, "noobject") /\ UNCHANGED self
       ELSE self' = r.obj /\ pc' = "constructed" /\ UNCHANGED <<exc, exitCode>>
  /\ UNCHANGED <<mode, input, cls, data, loc, dirs, disk, jobs, history>>

\* a caller constructs med2image(**kwargs) or med2image_nii(**kwargs)
Construct ==
  /\ pc = "start" /\ mode = "api"
  /\ LET r == IF cls = "med2image_nii" THEN med2image_nii_init(input, data)
              ELSE med2image_init(input) IN
       IF r.exc # ""
       THEN Raised(r.exc, "noobject") /\ UNCHANGED self
       ELSE self' = r.obj /\ pc' = "constructed" /\ UNCHANGED <<exc, exitCode>>
  /\ UNCHANGED <<mode, input, cls, data, loc, dirs, disk, jobs, history>>

\* run() may be called on a constructed object: once by "__main__", up to
\* MaxRuns times by a caller, which may call again after an exception
CanRun ==
  \/ pc = "constructed"
  \/ /\ mode = "api" /\ pc \in {"returned", "raised"}
     /\ Len(history) < MaxRuns

\* med2image.run(): the base class does nothing
GenericRun ==
  /\ CanRun /\ self.cls = "med2image"
  /\ pc' = "returned"
  /\ exc' = ""
  /\ jobs' = << >>
  /\ history' = Append(history, [exc |-> "", jobs |-> << >>])
  /\ UNCHANGED <<mode, input, cls, data, self, loc, exitCode, dirs, disk>>

\* med2image_nii.run(), up to the frame loop
RunBegin ==
  /\ CanRun /\ self.cls = "med2image_nii"
  /\ LET r == RunPrologue(self) IN self' = r.obj /\ loc' = r.loc
  /\ pc' = "frames"
  /\ exc' = ""
  /\ jobs' = << >>
  /\ UNCHANGED <<mode, input, cls, data, exitCode, dirs, disk, history>>

\* one iteration of the frame loop, up to the slice loop
FrameNext ==
  /\ pc = "frames" /\ loc.f < loc.frameEnd
  /\ LET r == FrameHead(self, loc) IN
       IF r.exc # ""
       THEN /\ Raised(r.exc, "raised")
            /\ history' = Append(history, [exc |-> r.exc, jobs |-> jobs])
            /\ UNCHANGED <<self, loc, dirs>>
       ELSE /\ self' = r.obj /\ loc' = r.loc
            /\ dirs' = mkdir(dirs, self.str_outputDir)
            /\ pc' = "slices"
            /\ UNCHANGED <<exc, exitCode, history>>
  /\ UNCHANGED <<mode, input, cls, data, disk, jobs>>

\* the frame loop is exhausted: run() returns
RunReturn ==
  /\ pc = "frames" /\ loc.f >= loc.frameEnd
  /\ pc' = "returned"
  /\ history' = Append(history, [exc |-> "", jobs |-> jobs])
  /\ UNCHANGED <<mode, input, cls, data, self, loc, exc, exitCode, dirs, disk,
                 jobs>>

\* one iteration of the slice loop: extract, name and save one image
SliceNext ==
  /\ pc = "slices" /\ loc.i < loc.sliceEnd
  /\ \E encoderOk \in BOOLEAN :
       LET r   == SliceBody(self, loc, encoderOk)
           job == [f |-> loc.f, i |-> loc.i, file |-> r.file,
                   saved |-> r.saved,
                   dirExisted |-> self.str_outputDir \in dirs]
           jobs1 == IF r.called THEN Append(jobs, job) ELSE jobs
       IN /\ self' = r.obj
          /\ jobs' = jobs1
          /\ disk' = IF r.saved THEN disk \cup {r.file} ELSE disk
          /\ IF r.exc # ""
             THEN /\ Raised(r.exc, "raised")
                  /\ history' = Append(history, [exc |-> r.exc, jobs |-> jobs1])
                  /\ UNCHANGED loc
             ELSE /\ loc' = [loc EXCEPT !.i = @ + 1]
                  /\ UNCHANGED <<pc, exc, exitCode, history>>
  /\ UNCHANGED <<mode, input, cls, data, dirs>>

\* the slice loop is exhausted: on to the next frame
SliceDone ==
  /\ pc = "slices" /\ loc.i >= loc.sliceEnd
  /\ pc' = "frames"
  /\ loc' = [loc EXCEPT !.f = @ + 1]
  /\ UNCHANGED <<mode, input, cls, data, self, exc, exitCode, dirs, disk,
                 jobs, history>>

\* "__main__" after C_convert.run(): the program ends normally
MainExit ==
  /\ pc = "returned" /\ mode = "cli"
  /\ pc' = "exited"
  /\ exitCode' = 0
  /\ UNCHANGED <<mode, input, cls, data, self, loc, exc, dirs, disk, jobs,
                 history>>

Next ==
  \/ Main
  \/ Construct
  \/ GenericRun
  \/ RunBegin
  \/ FrameNext
  \/ RunReturn
  \/ SliceNext
  \/ SliceDone
  \/ MainExit

Spec == Init /\ [][Next]_vars

TypeOK ==
  /\ pc \in {"start", "constructed", "frames", "slices", "returned", "raised",
             "noobject", "exited"}
  /\ exitCode \in {-1, 0, 1}
  /\ Len(history) <= MaxRuns

(***************************************************************************)
(* Vocabulary of the properties.                                           *)
(***************************************************************************)
StemArg == IF mode = "cli" THEN input["o"] ELSE input["outputFileStem"]
DirArg == IF mode = "cli" THEN S_curdir ELSE input["outputDir"]
TypeGiven ==
  IF mode = "cli" THEN "t" \in DOMAIN input ELSE "outputFileType" \in DOMAIN input
TypeArg == IF mode = "cli" THEN input["t"] ELSE input["outputFileType"]
FrameArg == IF mode = "cli" THEN input["f"] ELSE input["frameToConvert"].v
SliceArg == IF mode = "cli" THEN input["s"] ELSE input["sliceToConvert"].v
InputFileArg == IF mode = "cli" THEN input["i"] ELSE input["inputFile"]

IsMid(arg) == arg \in {S_m, S_M}
IsAll(arg) == ~IsMid(arg) /\ arg = <<"-", "1">>
IsIndex(arg) == ~IsMid(arg) /\ ~IsAll(arg)
IndexOf(arg) == ParseInt(arg)

\* the object exists, and is a med2image_nii
NiiObject == self.cls = "med2image_nii"
\* the constructor has returned an object of either class
Constructed == self.str_inputFile # S_empty
Is4D == data.ndim = 4
Is3D == data.ndim = 3
Z == data.shape[3]
T == data.shape[4]

Finished == {history[k] : k \in DOMAIN history}
IsPrefix(a, b) == Len(a) <= Len(b) /\ a = SubSeq(b, 1, Len(a))
\* the part of a path after the output directory
FilePart(file) == SubSeq(file, Len(DirArg) + 2, Len(file))

\* the frame and slice indices of a sequence of jobs
FrameSlice(js) == [k \in DOMAIN js |-> <<js[k].f, js[k].i>>]
SliceOnly(js) == [k \in DOMAIN js |-> js[k].i]

(***************************************************************************)
(* C1: with frame selector All and slice selector All, run() emits exactly *)
(* one job per index pair and nothing else: for a 4D volume T*Z jobs,      *)
(* frame-major and slice-minor, both ascending; for a 3D volume Z jobs     *)
(* with slices 0..Z-1 ascending.  A run that is cut short by the encoder   *)
(* has emitted a prefix of that sequence.                                  *)
(***************************************************************************)
AllPairs == [k \in 1..(T * Z) |-> <<(k - 1) \div Z, (k - 1) % Z>>]
AllSlices == [k \in 1..Z |-> k - 1]

C1_AllAll ==
  (NiiObject /\ IsAll(FrameArg) /\ IsAll(SliceArg)) =>
    /\ IF Is4D THEN IsPrefix(FrameSlice(jobs), AllPairs)
       ELSE IsPrefix(SliceOnly(jobs), AllSlices)
    /\ \A h \in Finished :
         /\ h.exc \in {"", "IOError"}
         /\ h.exc = "" =>
              IF Is4D THEN FrameSlice(h.jobs) = AllPairs /\ Len(h.jobs) = T * Z
              ELSE SliceOnly(h.jobs) = AllSlices /\ Len(h.jobs) = Z

C1_Witness ==
  /\ NiiObject /\ Is4D /\ T >= 2 /\ Z >= 2
  /\ IsAll(FrameArg) /\ IsAll(SliceArg)
  /\ pc = "returned" /\ Len(jobs) = T * Z

(***************************************************************************)
(* C2: every file name emitted by run(), after the output directory, is    *)
(* "{stem}-frame{f:03d}-slice{z:03d}.{ext}" for a 4D volume and            *)
(* "{stem}-slice{z:03d}.{ext}" for a 3D volume, ext being the resolved     *)
(* output type (the explicit type, else the stem's extension, else png)    *)
(* joined by a single '.'.                                                 *)
(***************************************************************************)
ClaimedType ==
  IF TypeGiven THEN TypeArg
  ELSE IF Len(splitext(StemArg)[2]) > 0 THEN Tail(splitext(StemArg)[2])
  ELSE S_png

ClaimedName(f, z) ==
  StemArg
    \o (IF Is4D THEN <<"-", "f", "r", "a", "m", "e">> \o Fmt03d(f) ELSE << >>)
    \o <<"-", "s", "l", "i", "c", "e">> \o Fmt03d(z)
    \o <<".">> \o ClaimedType

C2_FileNames ==
  \A k \in DOMAIN jobs : FilePart(jobs[k].file) = ClaimedName(jobs[k].f, jobs[k].i)

(***************************************************************************)
(* C3: the output type resolved by the constructor is the explicit type    *)
(* if the caller supplies one, otherwise the stem's extension, otherwise   *)
(* png ("out.jpg" without a type gives "jpg").                             *)
(***************************************************************************)
C3_TypeResolution == Constructed => self.str_outputFileType = ClaimedType

(***************************************************************************)
(* C4: an explicit frame index (4D) or slice index outside [0, count)      *)
(* makes run() fail with an index error and emit no job.                   *)
(***************************************************************************)
FrameOutOfRange ==
  Is4D /\ IsIndex(FrameArg) /\ (IndexOf(FrameArg) < 0 \/ IndexOf(FrameArg) >= T)
SliceOutOfRange ==
  IsIndex(SliceArg) /\ (IndexOf(SliceArg) < 0 \/ IndexOf(SliceArg) >= Z)

C4_OutOfRange ==
  (NiiObject /\ (FrameOutOfRange \/ SliceOutOfRange)) =>
    /\ jobs = << >>
    /\ disk = {}
    /\ \A h \in Finished : h.exc = "IndexError" /\ h.jobs = << >>

(***************************************************************************)
(* C5: selector Middle on an axis of count n >= 1 selects exactly the      *)
(* index floor(n/2): only frame floor(T/2) of a 4D volume is processed,    *)
(* and each processed frame gives exactly one job, at slice floor(Z/2).    *)
(***************************************************************************)
C5_Middle ==
  NiiObject =>
    /\ (Is4D /\ IsMid(FrameArg)) =>
         /\ \A k \in DOMAIN jobs : jobs[k].f = T \div 2
         /\ \A h \in Finished :
              h.exc = "" => {h.jobs[k].f : k \in DOMAIN h.jobs} = {T \div 2}
    /\ IsMid(SliceArg) =>
         /\ \A k \in DOMAIN jobs : jobs[k].i = Z \div 2
         /\ \A j, k \in DOMAIN jobs : jobs[j].f = jobs[k].f => j = k
         /\ \A h \in Finished :
              h.exc = "" =>
                /\ h.jobs # << >>
                /\ (Is4D /\ IsAll(FrameArg)) =>
                     FrameSlice(h.jobs) = [k \in 1..T |-> <<k - 1, Z \div 2>>]
                /\ (Is4D /\ IsMid(FrameArg)) =>
                     FrameSlice(h.jobs) = <<(<<T \div 2, Z \div 2>>)>>

C5_Witness ==
  /\ NiiObject /\ Is4D /\ T = 2 /\ Z = 2
  /\ IsMid(FrameArg) /\ IsMid(SliceArg)
  /\ pc = "returned"
  /\ FrameSlice(jobs) = <<(<<1, 1>>)>>

(***************************************************************************)
(* C6: for a 3D volume the frame selector is ignored.  The slices, their   *)
(* order, the file names and the error of a run() call are a function of   *)
(* the slice selector, the slice count and the output names alone, so any  *)
(* two frame selectors give the same sequence of jobs.                     *)
(***************************************************************************)
Slices3D ==
  IF IsMid(SliceArg) THEN <<Z \div 2>>
  ELSE IF IsAll(SliceArg) THEN AllSlices
  ELSE IF 0 - Z <= IndexOf(SliceArg) /\ IndexOf(SliceArg) < Z
       THEN <<IndexOf(SliceArg)>>
  ELSE << >>

Exc3D == IF Slices3D = << >> THEN "IndexError" ELSE ""

Files3D ==
  [k \in DOMAIN Slices3D |->
     <<Slices3D[k],
       OutputFile(FALSE, DirArg, StemArg, 0, Slices3D[k], self.str_outputFileType)>>]

SliceFile(js) == [k \in DOMAIN js |-> <<js[k].i, js[k].file>>]

C6_FrameIgnored ==
  (NiiObject /\ Is3D) =>
    /\ IsPrefix(SliceFile(jobs), Files3D)
    /\ \A h \in Finished :
         IF h.exc = "IOError" THEN IsPrefix(SliceFile(h.jobs), Files3D)
         ELSE h.exc = Exc3D /\ SliceFile(h.jobs) = Files3D

C6_Witness ==
  /\ NiiObject /\ Is3D /\ Z >= 2
  /\ IsIndex(FrameArg) /\ IndexOf(FrameArg) >= 2
  /\ IsAll(SliceArg)
  /\ pc = "returned" /\ Len(jobs) = Z

(***************************************************************************)
(* C7: when the input file's extension is neither '.nii' nor '.gz', the    *)
(* program writes no slice output, raises no error and ends with exit      *)
(* code 0.                                                                 *)
(***************************************************************************)
C7_GenericSilent ==
  (mode = "cli" /\ ~b_niftiExt(InputFileArg) /\ pc = "exited") =>
    /\ exitCode = 0
    /\ exc = ""
    /\ disk = {}

(***************************************************************************)
(* C8: when the NIfTI loader cannot decode the input file, the program     *)
(* ends with exit code 10 (InputFileFail), which differs from the outcome  *)
(* of an index error, and no job is emitted.                               *)
(***************************************************************************)
C8_InputFileFail ==
  (mode = "cli" /\ b_niftiExt(InputFileArg) /\ pc = "exited") =>
    /\ data = NoArray => (exitCode = 10 /\ jobs = << >>)
    /\ exc = "IndexError" => exitCode # 10

(***************************************************************************)
(* C9: if the encoder fails on the k-th job of a run, run() aborts: no     *)
(* later job is written, the files of jobs 1..k-1 stay on disk, and the    *)
(* output directory existed before job 1 was written.                      *)
(***************************************************************************)
C9_EncoderAbort ==
  /\ \A k \in DOMAIN jobs :
       /\ ~jobs[k].saved =>
            /\ k = Len(jobs)
            /\ exc = "IOError"
            /\ pc \in {"raised", "exited"}
            /\ history[Len(history)].jobs = jobs
       /\ jobs[k].saved => jobs[k].file \in disk
       /\ jobs[k].dirExisted
  /\ disk # {} => DirArg \in dirs

C9_Witness ==
  /\ Len(jobs) >= 3
  /\ ~jobs[Len(jobs)].saved
  /\ \A k \in 1..(Len(jobs) - 1) : jobs[k].file \in disk
  /\ jobs[Len(jobs)].file \notin disk
  /\ pc \in {"raised", "exited"}

(***************************************************************************)
(* C10: calling run() again on the same object emits the same sequence of  *)
(* jobs (indices, order and file names) with the same outcome, whenever    *)
(* the encoder does not fail; run() overwrites _frameToConvert,            *)
(* _sliceToConvert and _Vnp_3DVol but leaves the loaded 4D volume and the  *)
(* 3D/4D flags as the constructor set them.                                *)
(***************************************************************************)
C10_RerunSame ==
  /\ \A a, b \in Finished :
       (a.exc # "IOError" /\ b.exc # "IOError") => a = b
  /\ NiiObject =>
       /\ self.Vnp_4DVol = (IF Is4D THEN data ELSE NoArray)
       /\ self.b_4D = Is4D
       /\ self.b_3D = Is3D

C10_Witness ==
  /\ NiiObject /\ Is4D /\ T >= 2
  /\ IsMid(FrameArg) /\ IsMid(SliceArg)
  /\ Len(history) = 2
  /\ history[1].exc = "" /\ history[2].exc = ""
  /\ history[1].jobs # << >>
  /\ self.frameToConvert = PyInt(T \div 2)
  /\ self.Vnp_3DVol.at = <<T \div 2>>
====
